---- MODULE Spec2Model ----
(***************************************************************************)
(* Model of package/rx_mer_class.py (OpenPNM): RxMerDataValue, RxMerData   *)
(* and RX_MER.                                                             *)
(*                                                                         *)
(* Python values are records [t, n, s]: t is the runtime type, n the       *)
(* number and s the text of a string.  An int or bool carries its integer  *)
(* in n; a finite float carries its value in hundredths of a decibel, so   *)
(* 63.5 is 6350, 63.49 is 6349 and a quarter of a decibel is 25.  The      *)
(* float specials nan, inf and -inf have types of their own.               *)
(***************************************************************************)
EXTENDS Integers, Sequences, FiniteSets, TLC

VARIABLES
    pnm_header,   \* the header collaborator's payload: [present, bytes]
    rxmer_data,   \* RX_MER.rxmer_data: [set, values]; set = FALSE is None
    fetches,      \* number of getPnmData() calls made by the processor
    calls,        \* number of process_data() calls made
    arg,          \* argument of the last RxMerDataValue(...) construction
    mv,           \* the standalone RxMerDataValue last constructed: [made, value]
    ret           \* outcome of the last operation: [op, kind, exc, args, json]

vars == <<pnm_header, rxmer_data, fetches, calls, arg, mv, ret>>

(***************************************************************************)
(* Bounds of the model.                                                    *)
(***************************************************************************)
MaxLen == 2          \* longest payload enumerated over ByteSample
MaxCalls == 3        \* process_data()/run() calls per behaviour
MaxInt == 260        \* largest integer argument
MaxNeg == 3          \* integer arguments start at -MaxNeg
FloatHi == 6400      \* largest float argument of the grid, in hundredths
FloatLo == 50        \* float arguments of the grid start at -FloatLo hundredths

(***************************************************************************)
(* Class constants of RxMerDataValue.                                      *)
(***************************************************************************)
NO_MEASUREMENT == 255
MAX_REPORTED_VALUE == 6350

(***************************************************************************)
(* Python values.                                                          *)
(***************************************************************************)
PyInt(k) == [t |-> "int", n |-> k, s |-> ""]
PyBool(b) == [t |-> "bool", n |-> IF b THEN 1 ELSE 0, s |-> ""]
PyFloat(c) == [t |-> "float", n |-> c, s |-> ""]
PyNaN == [t |-> "nan", n |-> 0, s |-> ""]
PyInf == [t |-> "inf", n |-> 0, s |-> ""]
PyNegInf == [t |-> "neginf", n |-> 0, s |-> ""]
PyStr(x) == [t |-> "str", n |-> 0, s |-> x]
PyNone == [t |-> "None", n |-> 0, s |-> ""]

\* isinstance(value, int): bool is a subclass of int
isinstance_int(value) == value.t \in {"int", "bool"}

\* isinstance(value, float)
isinstance_float(value) == value.t \in {"float", "nan", "inf", "neginf"}

\* the number a finite value denotes, in hundredths
Num(x) == IF x.t \in {"int", "bool"} THEN x.n * 100 ELSE x.n

\* a < b on Python numbers: every comparison with nan is false
PyLt(a, b) ==
    IF a.t = "nan" \/ b.t = "nan" THEN FALSE
    ELSE IF a.t = "neginf" THEN b.t # "neginf"
    ELSE IF b.t = "inf" THEN a.t # "inf"
    ELSE IF a.t = "inf" \/ b.t = "neginf" THEN FALSE
    ELSE Num(a) < Num(b)

\* a == b on Python numbers
PyEq(a, b) ==
    IF a.t = "nan" \/ b.t = "nan" THEN FALSE
    ELSE IF a.t \in {"inf", "neginf"} \/ b.t \in {"inf", "neginf"} THEN a.t = b.t
    ELSE Num(a) = Num(b)

\* max(a, b): the first argument unless the second is greater
py_max_nolower(a, b) == a

py_max(a, b) == IF PyLt(a, b) THEN b ELSE a

\* min(a, b): the first argument unless the second is smaller
py_min(a, b) == IF PyLt(b, a) THEN b ELSE a

\* int(x) of a finite float: truncation toward zero
py_int(x) == PyInt(IF x.n >= 0 THEN x.n \div 100 ELSE 0 - ((0 - x.n) \div 100))

\* x * 4 of a finite float
py_mul4(x) == PyFloat(x.n * 4)

\* value / 4.0 of an int: a float
py_div4(x) == PyFloat((x.n * 100) \div 4)

(***************************************************************************)
(* Outcomes of an operation.                                               *)
(***************************************************************************)
Return(v) == [raised |-> FALSE, exc |-> "", args |-> <<>>, value |-> v]
Raise(e, a) == [raised |-> TRUE, exc |-> e, args |-> a, value |-> PyNone]

(***************************************************************************)
(* RxMerDataValue                                                          *)
(***************************************************************************)
_validate_value_nosentinel(value) ==
    IF isinstance_int(value) THEN
        Return(py_div4(py_min(py_max(value, PyInt(0)),
                              py_int(py_mul4(PyFloat(MAX_REPORTED_VALUE))))))
    ELSE IF isinstance_float(value) THEN
        Return(py_min(py_max(value, PyFloat(0)), PyFloat(MAX_REPORTED_VALUE)))
    ELSE Raise("ValueError", <<PyStr("Invalid RxMER value")>>)

_validate_value_rejecting(value) ==
    IF isinstance_int(value) THEN
        IF PyEq(value, PyInt(NO_MEASUREMENT)) THEN Return(PyInt(NO_MEASUREMENT))
        ELSE IF PyLt(value, PyInt(0)) \/ PyLt(PyInt(254), value)
             THEN Raise("ValueError", <<PyStr("Invalid RxMER value")>>)
        ELSE Return(py_div4(value))
    ELSE IF isinstance_float(value) THEN
        Return(py_min(py_max(value, PyFloat(0)), PyFloat(MAX_REPORTED_VALUE)))
    ELSE Raise("ValueError", <<PyStr("Invalid RxMER value")>>)

_validate_value(value) ==
    IF isinstance_int(value) THEN
        IF PyEq(value, PyInt(NO_MEASUREMENT)) THEN Return(PyInt(NO_MEASUREMENT))
        ELSE Return(py_div4(py_min(py_max(value, PyInt(0)),
                                   py_int(py_mul4(PyFloat(MAX_REPORTED_VALUE))))))
    ELSE IF isinstance_float(value) THEN
        Return(py_min(py_max(value, PyFloat(0)), PyFloat(MAX_REPORTED_VALUE)))
    ELSE Raise("ValueError", <<PyStr("Invalid RxMER value")>>)

\* RxMerDataValue(value): the object [value |-> ...], or the exception
RxMerDataValue(value) ==
    LET r == _validate_value(value) IN
    IF r.raised THEN r ELSE Return([value |-> r.value])

isMaxValue(self) == PyEq(self.value, PyFloat(MAX_REPORTED_VALUE))

getRxMER(self) == self.value

isMeasurement(self) == ~PyEq(self.value, PyInt(NO_MEASUREMENT))

\* RxMerDataValue.toJson: the encoded string, kept as the object it encodes
RxMerDataValue_toJson(self) ==
    [value |-> self.value,
     isMaxValue |-> isMaxValue(self),
     isMeasurement |-> isMeasurement(self)]

(***************************************************************************)
(* RxMerData                                                               *)
(***************************************************************************)
RxMerData(values) == [set |-> TRUE, values |-> values]

size(self) == Len(self.values)

RxMerData_toJson(self) ==
    [i \in 1..Len(self.values) |-> RxMerDataValue_toJson(self.values[i])]

(***************************************************************************)
(* The header collaborator                                                 *)
(***************************************************************************)
Absent == [present |-> FALSE, bytes |-> <<>>]
Present(b) == [present |-> TRUE, bytes |-> b]

ByteSample == {0, 4, 254, 255}

SeqsUpTo(S, k) == UNION {[1..m -> S] : m \in 0..k}

Payloads ==
    {Absent} \cup {Present(b) : b \in SeqsUpTo(ByteSample, MaxLen) \cup {<<0, 4, 254, 255>>}}

\* PnmHeader.getPnmData()
getPnmData == pnm_header

(***************************************************************************)
(* RX_MER                                                                  *)
(***************************************************************************)
None == [set |-> FALSE, values |-> <<>>]

NoRet == [op |-> "", kind |-> "None", exc |-> "", args |-> <<>>, json |-> <<>>]

\* _parse_rxmer_data: one fetch, then one RxMerDataValue per byte, in order
_parse_rxmer_data_reversed(pnm_data) ==
    IF pnm_data.present THEN
        LET pnm_data_list == pnm_data.bytes
            n == Len(pnm_data_list)
            made == [i \in 1..n |-> RxMerDataValue(PyInt(pnm_data_list[n + 1 - i]))]
            bad == {i \in 1..n : made[i].raised}
        IN  IF bad # {}
            THEN [made[CHOOSE i \in bad : \A j \in bad : i <= j] EXCEPT !.value = None]
            ELSE Return(RxMerData([i \in 1..n |-> made[i].value]))
    ELSE Return(RxMerData(<<>>))

_parse_rxmer_data(pnm_data) ==
    IF pnm_data.present THEN
        LET pnm_data_list == pnm_data.bytes
            n == Len(pnm_data_list)
            made == [i \in 1..n |-> RxMerDataValue(PyInt(pnm_data_list[i]))]
            bad == {i \in 1..n : made[i].raised}
        IN  IF bad # {}
            THEN [made[CHOOSE i \in bad : \A j \in bad : i <= j] EXCEPT !.value = None]
            ELSE Return(RxMerData([i \in 1..n |-> made[i].value]))
    ELSE Return(RxMerData(<<>>))

process_data_once ==
    /\ calls < MaxCalls
    /\ LET r == _parse_rxmer_data(getPnmData) IN
       /\ rxmer_data' = IF r.raised THEN rxmer_data ELSE r.value
       /\ ret' = IF r.raised
                 THEN [op |-> "process_data", kind |-> "exc", exc |-> r.exc,
                       args |-> r.args, json |-> <<>>]
                 ELSE [NoRet EXCEPT !.op = "process_data"]
    /\ fetches' = fetches + 1
    /\ calls' = calls + 1
    /\ UNCHANGED <<pnm_header, arg, mv>>

process_data_keep ==
    /\ calls < MaxCalls
    /\ LET r == _parse_rxmer_data(getPnmData) IN
       /\ rxmer_data' = IF r.raised \/ ~getPnmData.present THEN rxmer_data ELSE r.value
       /\ ret' = IF r.raised
                 THEN [op |-> "process_data", kind |-> "exc", exc |-> r.exc,
                       args |-> r.args, json |-> <<>>]
                 ELSE [NoRet EXCEPT !.op = "process_data"]
    /\ fetches' = fetches + 2
    /\ calls' = calls + 1
    /\ UNCHANGED <<pnm_header, arg, mv>>

\* process_data: a fetch for the debug line, then the fetch of the parse
process_data ==
    /\ calls < MaxCalls
    /\ LET r == _parse_rxmer_data(getPnmData) IN
       /\ rxmer_data' = IF r.raised THEN rxmer_data ELSE r.value
       /\ ret' = IF r.raised
                 THEN [op |-> "process_data", kind |-> "exc", exc |-> r.exc,
                       args |-> r.args, json |-> <<>>]
                 ELSE [NoRet EXCEPT !.op = "process_data"]
    /\ fetches' = fetches + 1 + 1
    /\ calls' = calls + 1
    /\ UNCHANGED <<pnm_header, arg, mv>>

\* run: process_data
run == process_data

toJson_lenient ==
    /\ ret' = [op |-> "toJson", kind |-> "json", exc |-> "", args |-> <<>>,
               json |-> RxMerData_toJson(rxmer_data)]
    /\ UNCHANGED <<pnm_header, rxmer_data, fetches, calls, arg, mv>>

\* toJson: the held sequence's view; None has no toJson
toJson ==
    /\ ret' = IF rxmer_data.set
              THEN [op |-> "toJson", kind |-> "json", exc |-> "", args |-> <<>>,
                    json |-> RxMerData_toJson(rxmer_data)]
              ELSE [op |-> "toJson", kind |-> "exc", exc |-> "AttributeError",
                    args |-> <<PyStr("'NoneType' object has no attribute 'toJson'")>>,
                    json |-> <<>>]
    /\ UNCHANGED <<pnm_header, rxmer_data, fetches, calls, arg, mv>>

\* the collaborator's payload changes (a file is loaded, or none is)
setPnmData(p) ==
    /\ p # pnm_header
    /\ pnm_header' = p
    /\ UNCHANGED <<rxmer_data, fetches, calls, arg, mv, ret>>

(***************************************************************************)
(* Standalone construction of a Measurement Value                          *)
(***************************************************************************)
IntInputs == {PyInt(k) : k \in (0 - MaxNeg)..MaxInt} \cup {PyBool(TRUE), PyBool(FALSE)}

FloatInputs ==
    {PyFloat(c) : c \in ((0 - FloatLo)..FloatHi) \cup {25400, 25500, 25600}}
        \cup {PyNaN, PyInf, PyNegInf}

OtherInputs == {PyStr("abc"), PyStr("63.5"), PyNone}

Inputs == IntInputs \cup FloatInputs \cup OtherInputs

NoValue == [made |-> FALSE, value |-> PyNone]

\* RxMerDataValue(arg): the one construction of a behaviour of SpecValue
Construct(value) ==
    /\ ret.op = ""
    /\ value = arg
    /\ arg' = value
    /\ LET r == RxMerDataValue(value) IN
       /\ mv' = IF r.raised THEN NoValue ELSE [made |-> TRUE, value |-> r.value.value]
       /\ ret' = IF r.raised
                 THEN [op |-> "RxMerDataValue", kind |-> "exc", exc |-> r.exc,
                       args |-> r.args, json |-> <<>>]
                 ELSE [NoRet EXCEPT !.op = "RxMerDataValue"]
    /\ UNCHANGED <<pnm_header, rxmer_data, fetches, calls>>

(***************************************************************************)
(* Specifications                                                          *)
(***************************************************************************)
Init ==
    /\ pnm_header \in Payloads
    /\ rxmer_data = None
    /\ fetches = 0
    /\ calls = 0
    /\ arg = PyNone
    /\ mv = NoValue
    /\ ret = NoRet

Next ==
    \/ \E p \in Payloads : setPnmData(p)
    \/ process_data
    \/ run
    \/ toJson

Spec == Init /\ [][Next]_vars

InitValue ==
    /\ pnm_header = Absent
    /\ rxmer_data = None
    /\ fetches = 0
    /\ calls = 0
    /\ arg \in Inputs
    /\ mv = NoValue
    /\ ret = NoRet

NextValue == Construct(arg)

SpecValue == InitValue /\ [][NextValue]_vars

(***************************************************************************)
(* Properties of RxMerDataValue, checked under SpecValue                   *)
(***************************************************************************)

\* C1: an integer argument v other than 255 is stored as clamp(v, 0, 254) / 4:
\* v in [0, 254] gives v / 4, within [0.0, 63.5], and v > 254 gives 63.5, the
\* value of 254.
RawByteDecoding ==
    (ret.op = "RxMerDataValue" /\ arg.t \in {"int", "bool"} /\ arg.n # 255) =>
        LET v == arg.n
            clamped == IF v < 0 THEN 0 ELSE IF v > 254 THEN 254 ELSE v
        IN  /\ mv.made
            /\ mv.value = PyFloat(clamped * 25)
            /\ (v \in 0..254 => mv.value.n = v * 25 /\ mv.value.n \in 0..6350)
            /\ (v > 254 => mv.value = PyFloat(6350))

RawByteDecodingWitness ==
    /\ ret.op = "RxMerDataValue"
    /\ arg = PyInt(256)
    /\ mv.made
    /\ mv.value = PyFloat(6350)

\* C2: the integer 255 is stored as 255, neither clamped nor divided, and the
\* value is then neither a measurement nor the maximum value.
SentinelStored ==
    (ret.op = "RxMerDataValue" /\ arg = PyInt(255)) =>
        /\ mv.made
        /\ mv.value = PyInt(255)
        /\ ~isMeasurement(mv)
        /\ ~isMaxValue(mv)

SentinelStoredWitness ==
    /\ ret.op = "RxMerDataValue"
    /\ arg = PyInt(255)
    /\ mv.made
    /\ mv.value.n = 255

\* C4: a float argument f is stored clamped to [0.0, 63.5] without conversion:
\* the stored value lies in [0.0, 63.5], is 0.0 for f < 0.0, 63.5 for f > 63.5
\* and f itself for f within the range.
CalibratedFloatClamped ==
    (ret.op = "RxMerDataValue" /\ arg.t \in {"float", "nan", "inf", "neginf"}) =>
        /\ mv.made
        /\ mv.value.t = "float"
        /\ mv.value.n \in 0..6350
        /\ (PyLt(arg, PyFloat(0)) => mv.value = PyFloat(0))
        /\ (PyLt(PyFloat(6350), arg) => mv.value = PyFloat(6350))
        /\ (arg.t = "float" /\ arg.n \in 0..6350 => mv.value = arg)

\* C5: an argument that is neither an integer nor a float raises ValueError and
\* makes no value; an integer or a float of any size makes a value and raises
\* nothing.
InvalidValueOnlyForNonNumbers ==
    ret.op = "RxMerDataValue" =>
        IF arg.t \in {"int", "bool", "float", "nan", "inf", "neginf"}
        THEN mv.made /\ ret.kind # "exc"
        ELSE ~mv.made /\ ret.kind = "exc" /\ ret.exc = "ValueError"

InvalidValueWitness ==
    /\ ret.op = "RxMerDataValue"
    /\ arg = PyStr("abc")
    /\ ~mv.made
    /\ ret.exc = "ValueError"

\* C8: every Measurement Value that exists, standalone or in the held
\* sequence, stores the sentinel 255 or a decibel value in [0.0, 63.5], a
\* multiple of 0.25 when it comes from a raw byte.
StoredValueInvariant ==
    LET ok(x) == x = PyInt(255) \/ (x.t = "float" /\ x.n \in 0..6350)
        quarter(x) == x = PyInt(255) \/ x.n % 25 = 0
    IN  /\ mv.made => ok(mv.value)
        /\ (mv.made /\ arg.t \in {"int", "bool"}) => quarter(mv.value)
        /\ \A i \in 1..Len(rxmer_data.values) :
              ok(rxmer_data.values[i].value) /\ quarter(rxmer_data.values[i].value)

\* C9: a ValueError raised by the construction carries the offending argument.
InvalidValueEchoesInput ==
    (ret.op = "RxMerDataValue" /\ ret.kind = "exc") =>
        \E i \in 1..Len(ret.args) : ret.args[i] = arg

(***************************************************************************)
(* Properties of RX_MER, checked under Spec                                *)
(***************************************************************************)

\* C3: a process_data()/run() call on a present payload of n bytes leaves a
\* sequence of size n whose i-th value is the decoding of the i-th byte;
\* bytes 0, 4, 254, 255 give 0.0, 1.0, 63.5, 255 with measurement flags true,
\* true, true, false.
EndToEndDecoding ==
    [][(calls' # calls /\ pnm_header.present) =>
        LET b == pnm_header.bytes IN
        /\ rxmer_data'.set
        /\ size(rxmer_data') = Len(b)
        /\ \A i \in 1..Len(b) :
              rxmer_data'.values[i].value =
                  IF b[i] = 255 THEN PyInt(255) ELSE PyFloat(b[i] * 25)
        /\ (b = <<0, 4, 254, 255>> =>
              /\ [i \in 1..4 |-> rxmer_data'.values[i].value] =
                     <<PyFloat(0), PyFloat(100), PyFloat(6350), PyInt(255)>>
              /\ [i \in 1..4 |-> isMeasurement(rxmer_data'.values[i])] =
                     <<TRUE, TRUE, TRUE, FALSE>>)]_vars

EndToEndDecodingWitness ==
    /\ ret.op = "process_data"
    /\ pnm_header = Present(<<0, 4, 254, 255>>)
    /\ rxmer_data.set
    /\ size(rxmer_data) = 4
    /\ rxmer_data.values[4].value = PyInt(255)
    /\ rxmer_data.values[3].value = PyFloat(6350)

\* C6: a process_data()/run() call on an absent payload raises nothing and
\* leaves an empty sequence, whatever sequence was held before.
MissingPayloadGivesEmpty ==
    [][(calls' # calls /\ ~pnm_header.present) =>
        /\ ret'.kind # "exc"
        /\ rxmer_data'.set
        /\ size(rxmer_data') = 0]_vars

MissingPayloadWitness ==
    /\ ret.op = "process_data"
    /\ calls >= 2
    /\ ~pnm_header.present
    /\ rxmer_data.set
    /\ size(rxmer_data) = 0

\* C7: the processor starts with no sequence; every process_data()/run() call
\* leaves it holding the sequence decoded from the payload of that call; a
\* held sequence is never given up; toJson() returns the view of the held
\* sequence when there is one and returns no view when there is none.
ProcessorStateMachine ==
    /\ ~rxmer_data.set
    /\ [][/\ rxmer_data.set => rxmer_data'.set
          /\ calls' # calls =>
                /\ rxmer_data'.set
                /\ size(rxmer_data') = Len(pnm_header.bytes)
                /\ \A i \in 1..Len(pnm_header.bytes) :
                      rxmer_data'.values[i].value =
                          IF pnm_header.bytes[i] = 255 THEN PyInt(255)
                          ELSE PyFloat(pnm_header.bytes[i] * 25)
          /\ (ret'.op = "toJson" /\ ret' # ret) =>
                IF rxmer_data.set
                THEN /\ ret'.kind = "json"
                     /\ Len(ret'.json) = size(rxmer_data)
                     /\ \A i \in 1..Len(ret'.json) :
                           ret'.json[i].value = rxmer_data.values[i].value
                     /\ rxmer_data' = rxmer_data
                ELSE ret'.kind = "exc" /\ ret'.json = <<>>]_vars

ProcessorStateMachineWitness ==
    /\ calls >= 2
    /\ ret.op = "toJson"
    /\ ret.kind = "json"
    /\ Len(ret.json) = 2
    /\ rxmer_data.set

\* C10 as stated: k process_data()/run() calls make exactly k fetches of the
\* payload.
OneFetchPerCall == fetches = calls

\* C10 as amended: each process_data()/run() call fetches the payload exactly
\* twice, once for the debug line and once for the decoding, so k calls make
\* 2k fetches; what the processor holds afterwards is the decoded sequence.
TwoFetchesPerCall ==
    /\ fetches = 2 * calls
    /\ \A i \in 1..Len(rxmer_data.values) :
          DOMAIN rxmer_data.values[i] = {"value"}

TwoFetchesPerCallWitness ==
    /\ calls >= 2
    /\ fetches >= 4
    /\ ret.op = "process_data"
    /\ size(rxmer_data) > 0

====
